---- MODULE Spec2Model ----
(***************************************************************************)
(* Order lifecycle of src/index.js: POST /api/create-order,                *)
(* GET /api/order-status/:orderId (reconcile) and                          *)
(* POST /api/cancel-order/:orderId, run as concurrent request handlers     *)
(* over one Order collection and one upstream provider.                    *)
(*                                                                         *)
(* A handler is cut at its awaits: the code between two awaits runs to     *)
(* completion (one action), and other handlers may run between them.       *)
(* Order.findOne reads the stored record into the handler's own document;  *)
(* order.save() writes that document back as the stored record.            *)
(* Provider responses and store failures are chosen nondeterministically.  *)
(***************************************************************************)
EXTENDS Integers, Sequences, FiniteSets, TLC

(* ---------------------------- bounds ----------------------------------- *)
\* number of concurrent request handlers
NumReq == 2
\* number of order ids the server generates
MaxOrders == 1
\* largest value of the clock read by new Date()
MaxTime == 1
\* cap on the transaction-create calls counted per order
MaxTxCalls == 3
\* number of requests that arrive in a run
MaxRequests == 4

Reqs == 1..NumReq

(* ---------------------------- values ----------------------------------- *)
\* JavaScript undefined for a String path of the schema
undefined == "undefined"
\* an absent or empty Object path ({...undefined} is {})
EmptyObj == [k \in {} |-> ""]

Falsy(v) == v = undefined \/ v = ""

OrderIdOf(n) == "ORD-" \o ToString(n)
OrderIds == {OrderIdOf(n) : n \in 1..MaxOrders}
\* an order id no create-order ever generated
UnknownOrderId == "ORD-0"

DepositReffIdOf(orderId) == "DEP-" \o orderId
TransactionReffIdOf(orderId) == "TRX-" \o orderId

\* String.prototype.toUpperCase on the strings the provider sends
UpperTable ==
    [pending |-> "PENDING", Pending |-> "PENDING",
     success |-> "SUCCESS", Success |-> "SUCCESS",
     expired |-> "EXPIRED", Expired |-> "EXPIRED",
     failed |-> "FAILED", Failed |-> "FAILED",
     cancel |-> "CANCEL", Cancel |-> "CANCEL",
     error |-> "ERROR", processing |-> "PROCESSING",
     payment_successful_processing_order |-> "PAYMENT_SUCCESSFUL_PROCESSING_ORDER"]
toUpperCase(s) == IF s \in DOMAIN UpperTable THEN UpperTable[s] ELSE s

\* String.prototype.toLowerCase on the strings the requests and provider send
LowerTable ==
    [Cancel |-> "cancel", CANCEL |-> "cancel", Pending |-> "pending",
     PENDING |-> "pending", Telkomsel |-> "telkomsel", TELKOMSEL |-> "telkomsel",
     Pulsa |-> "pulsa", PULSA |-> "pulsa", Other |-> "other"]
toLowerCase(s) == IF s \in DOMAIN LowerTable THEN LowerTable[s] ELSE s

\* Merge with a fault: the new object replaces the old one
Merge_Replace(a, b) == b
\* {...a, ...b}
Merge(a, b) == [k \in DOMAIN a \cup DOMAIN b |-> IF k \in DOMAIN b THEN b[k] ELSE a[k]]
\* obj.k, undefined when the key is absent
Get(obj, k) == IF k \in DOMAIN obj THEN obj[k] ELSE undefined

(* ---------------------------- numbers ---------------------------------- *)
(* A JavaScript Number is an IEEE 754 double. The prices and fees of the    *)
(* handler are positive or zero and far from overflow and underflow, so a   *)
(* Number is kept as an odd integer m and an exponent e, standing for       *)
(* m * 2^e; m is written in limbs of LimbBits binary digits, lowest limb    *)
(* first, and zero is the empty sequence. Every operation computes the      *)
(* exact result and rounds it to 53 binary digits, ties to even, as the     *)
(* hardware does.                                                           *)
\* the significand of a double
MantissaBits == 53
\* digits a quotient is carried beyond the significand before it is rounded
GuardBits == 64
\* binary digits per limb
LimbBits == 10
Base == 2 ^ LimbBits

Limb(a, i) == IF i >= 1 /\ i <= Len(a) THEN a[i] ELSE 0

RECURSIVE LimbsOf(_)
LimbsOf(n) == IF n = 0 THEN <<>> ELSE <<n % Base>> \o LimbsOf(n \div Base)

RECURSIVE ValueOf(_)
ValueOf(a) == IF a = <<>> THEN 0 ELSE Head(a) + Base * ValueOf(Tail(a))

\* without its leading zero limbs (the highest limb is the last)
Trim(a) ==
    IF \A i \in 1..Len(a) : a[i] = 0 THEN <<>>
    ELSE SubSeq(a, 1, CHOOSE i \in 1..Len(a) :
                          a[i] # 0 /\ \A j \in (i + 1)..Len(a) : a[j] = 0)

\* binary digits of a limb, and of a trimmed limb sequence
Width(n) == IF n = 0 THEN 0 ELSE CHOOSE k \in 1..LimbBits : 2 ^ (k - 1) <= n /\ n < 2 ^ k
BitLen(a) == IF a = <<>> THEN 0 ELSE LimbBits * (Len(a) - 1) + Width(a[Len(a)])
\* the i-th binary digit, the lowest being the first
BitAt(a, i) == (Limb(a, ((i - 1) \div LimbBits) + 1) \div 2 ^ ((i - 1) % LimbBits)) % 2

\* a \div 2^k
ShiftRight(a, k) ==
    LET q == k \div LimbBits
        b == k % LimbBits
    IN Trim([i \in 1..(Len(a) - q) |->
                (Limb(a, i + q) \div 2 ^ b) + (Limb(a, i + q + 1) % 2 ^ b) * 2 ^ (LimbBits - b)])
\* a * 2^k
ShiftLeft(a, k) ==
    LET q == k \div LimbBits
        b == k % LimbBits
    IN Trim([i \in 1..(Len(a) + q + 1) |->
                ((Limb(a, i - q) * 2 ^ b) % Base) + (Limb(a, i - q - 1) \div 2 ^ (LimbBits - b))])

RECURSIVE AddCarry(_, _, _)
AddCarry(a, b, c) ==
    IF a = <<>> /\ b = <<>> THEN (IF c = 0 THEN <<>> ELSE <<c>>)
    ELSE LET sum == Limb(a, 1) + Limb(b, 1) + c
         IN <<sum % Base>> \o AddCarry(IF a = <<>> THEN <<>> ELSE Tail(a),
                                       IF b = <<>> THEN <<>> ELSE Tail(b), sum \div Base)

\* a * k + c for a whole k below 2^20
RECURSIVE TimesSmall(_, _, _)
TimesSmall(a, k, c) ==
    IF a = <<>> THEN LimbsOf(c)
    ELSE LET sum == Head(a) * k + c
         IN <<sum % Base>> \o TimesSmall(Tail(a), k, sum \div Base)

\* quotient q and remainder r of a by a whole d below 2^20
RECURSIVE DivSmall(_, _)
DivSmall(a, d) ==
    IF a = <<>> THEN [q |-> <<>>, r |-> 0]
    ELSE LET high == DivSmall(Tail(a), d)
             cur == high.r * Base + Head(a)
         IN [q |-> <<cur \div d>> \o high.q, r |-> cur % d]

\* m * 2^e with m odd
Canonical(m, e) ==
    IF m = <<>> THEN [m |-> <<>>, e |-> 0]
    ELSE LET z == CHOOSE k \in 0..(BitLen(m) - 1) :
                      BitAt(m, k + 1) = 1 /\ \A j \in 1..k : BitAt(m, j) = 0
         IN [m |-> ShiftRight(m, z), e |-> e + z]

\* the double nearest to m * 2^e (plus a nonzero fraction of 2^e when sticky), ties
\* to even
RoundToDouble(m, e, sticky) ==
    IF BitLen(m) <= MantissaBits THEN Canonical(m, e)
    ELSE LET k == BitLen(m) - MantissaBits
             kept == ShiftRight(m, k)
             rest == sticky \/ \E i \in 1..(k - 1) : BitAt(m, i) = 1
             up == BitAt(m, k) = 1 /\ (rest \/ BitAt(kept, 1) = 1)
         IN Canonical(IF up THEN AddCarry(kept, <<>>, 1) ELSE kept, e + k)

\* the Number of a whole amount
Whole(n) == Canonical(LimbsOf(n), 0)

\* x / d for a whole d
DividedBy(x, d) ==
    IF x.m = <<>> THEN x
    ELSE LET division == DivSmall(ShiftLeft(x.m, GuardBits), d)
         IN RoundToDouble(Trim(division.q), x.e - GuardBits, division.r # 0)

\* x * n for a whole n
Times(x, n) ==
    IF x.m = <<>> \/ n = 0 THEN Whole(0)
    ELSE RoundToDouble(Trim(TimesSmall(x.m, n, 0)), x.e, FALSE)

\* x + y
Plus(x, y) ==
    IF x.m = <<>> THEN y
    ELSE IF y.m = <<>> THEN x
    ELSE LET e == IF x.e < y.e THEN x.e ELSE y.e
         IN RoundToDouble(AddCarry(ShiftLeft(x.m, x.e - e), ShiftLeft(y.m, y.e - e), 0),
                          e, FALSE)

\* parseFloat of a decimal numeral: the double nearest to digits / scale
parseFloat(digits, scale) == DividedBy(Whole(digits), scale)

\* Math.ceil, as a whole number
Ceil(x) ==
    IF x.e >= 0 THEN ValueOf(ShiftLeft(x.m, x.e))
    ELSE IF -x.e >= BitLen(x.m) THEN 1
    ELSE ValueOf(ShiftRight(x.m, -x.e)) + 1

(* ---------------------------- catalog ---------------------------------- *)
\* the catalog holds price and fee in whole currency units and fee_persen in
\* hundredths of a percent (150 is the numeral "1.50")
Hundredths == 100
productsCache ==
    {[code |-> "P1", name |-> "Pulsa 10K", price |-> 10000, provider |-> "Telkomsel",
      category |-> "Pulsa", img_url |-> "img1"]}
paymentMethodsCache ==
    {[metode |-> "BCA", name |-> "Bank BCA", type |-> "bank", fee |-> 500, fee_persen |-> 150]}
additionalAdminFeePercentGlobal == 2

FindProduct(productId, providerName) ==
    {p \in productsCache :
        /\ p.code = productId
        /\ \/ toLowerCase(p.provider) = toLowerCase(providerName)
           \/ toLowerCase(p.category) = toLowerCase(providerName)}
FindPaymentMethod(paymentMethodCode) ==
    {pm \in paymentMethodsCache : pm.metode = paymentMethodCode}

\* lines 186-188
baseProductPrice(p) == parseFloat(p.price, 1)
paymentMethodFee(pm) == parseFloat(pm.fee, 1)
paymentMethodFeePercent(pm) == parseFloat(pm.fee_persen, Hundredths)

\* lines 191-194; the base price is a whole amount
feeFromPaymentMethod(p, pm) ==
    Plus(paymentMethodFee(pm), Times(DividedBy(paymentMethodFeePercent(pm), 100), p.price))
globalAdminFee(p) ==
    Times(DividedBy(Whole(additionalAdminFeePercentGlobal), 100), p.price)
totalAdminFee(p, pm) == Plus(feeFromPaymentMethod(p, pm), globalAdminFee(p))
totalAmountForDeposit(p, pm) == Plus(baseProductPrice(p), totalAdminFee(p, pm))

(* ---------------------------- provider --------------------------------- *)
\* a transport error: fetchAtlanticAPI throws
Throw == [kind |-> "throw", status |-> FALSE, hasData |-> FALSE, data |-> EmptyObj,
          message |-> "fetch failed"]
Reply(status, hasData, data, message) ==
    [kind |-> "reply", status |-> status, hasData |-> hasData, data |-> data,
     message |-> message]
\* replies that fail the test `response.status && response.data`
FailureReplies ==
    {Reply(FALSE, FALSE, EmptyObj, "Saldo tidak cukup"),
     Reply(FALSE, TRUE, [status |-> "failed"], undefined),
     Reply(TRUE, FALSE, EmptyObj, undefined)}

DepositIds == {"D1"}
\* the provider gives the k-th transaction it is asked to create a fresh id
TransactionIdOf(k) == "T" \o ToString(k)
DepositRawStatuses == {"pending", "Success", "EXPIRED", "Failed", "cancel", "processing"}
TransactionCreateRawStatuses ==
    {"pending", "PENDING", "success", "payment_successful_processing_order"}
TransactionRawStatuses == {"pending", "Success", "failed", "error", "processing"}
CancelRawStatuses == {"cancel", "Cancel", "CANCEL", "pending"}

DepositCreateResponses ==
    {Throw} \cup FailureReplies
    \cup {Reply(TRUE, TRUE, [id |-> d, status |-> "pending"], undefined) : d \in DepositIds}
    \cup {Reply(TRUE, TRUE, [status |-> "pending"], undefined)}
DepositStatusResponses ==
    {Throw} \cup FailureReplies
    \cup {Reply(TRUE, TRUE, [status |-> s], undefined) : s \in DepositRawStatuses}
    \cup {Reply(TRUE, TRUE, [id |-> d], undefined) : d \in DepositIds}
TransactionCreateResponses(t) ==
    {Throw} \cup FailureReplies
    \cup {Reply(TRUE, TRUE, [id |-> t, status |-> s], undefined) :
            s \in TransactionCreateRawStatuses}
    \cup {Reply(TRUE, TRUE, [id |-> t], undefined)}
    \cup {Reply(TRUE, TRUE, [status |-> s], undefined) :
            s \in {"pending", "payment_successful_processing_order"}}
TransactionStatusResponses ==
    {Throw} \cup FailureReplies
    \cup {Reply(TRUE, TRUE, [status |-> s], undefined) : s \in TransactionRawStatuses}
    \cup {Reply(TRUE, TRUE, [id |-> TransactionIdOf(1)], undefined)}
CancelResponses ==
    {Throw} \cup FailureReplies
    \cup {Reply(TRUE, TRUE, [status |-> s], undefined) : s \in CancelRawStatuses}
    \cup {Reply(TRUE, TRUE, [id |-> d], undefined) : d \in DepositIds}

\* response.status && response.data
ResponseOk(response) == response.status /\ response.hasData

\* The provider settles a deposit once: "open" until it has answered that the
\* deposit is paid (status SUCCESS) or closed (status EXPIRED, FAILED or CANCEL, or
\* a cancellation it carried out); it never answers the one after the other.
DepositAnswer(response) ==
    IF response.kind = "reply" /\ ResponseOk(response)
    THEN toUpperCase(Get(response.data, "status")) ELSE "NONE"
DepositStatusAnswerAllowed(deposit, response) ==
    /\ DepositAnswer(response) = "SUCCESS" => deposit # "closed"
    /\ DepositAnswer(response) \in {"EXPIRED", "FAILED", "CANCEL"} => deposit # "paid"
DepositAfterStatusAnswer(deposit, response) ==
    IF DepositAnswer(response) = "SUCCESS" THEN "paid"
    ELSE IF DepositAnswer(response) \in {"EXPIRED", "FAILED", "CANCEL"} THEN "closed"
    ELSE deposit
CancelAnswerAllowed(deposit, response) ==
    DepositAnswer(response) = "CANCEL" => deposit # "paid"
DepositAfterCancelAnswer(deposit, response) ==
    IF DepositAnswer(response) = "CANCEL" THEN "closed" ELSE deposit

(* ---------------------------- state ------------------------------------ *)
VARIABLES
    store,              \* the Order collection: orderId -> stored record
    req,                \* the request handlers in flight
    now,                \* the clock read by new Date()
    arrived,            \* number of requests received so far
    nextOrder,          \* number of order ids generated so far
    depositCreateCalls, \* /deposit/create calls issued, per order id
    txCreateCalls,      \* /transaksi/create calls issued, per order id
    opened,             \* order ids whose deposit the provider opened
    providerDeposit,    \* what the provider has answered about each deposit so far
    quote               \* the price computation of the create-order handler

vars == <<store, req, now, arrived, nextOrder, depositCreateCalls, txCreateCalls, opened,
          providerDeposit, quote>>

\* no provider response held
NoResponse == [kind |-> "none"]
\* no price computation under way
NoQuote == [pc |-> "none"]

\* a handler: its position, its locals (body, order, response), the status it read
\* from the store (seen), the provider calls it issued (calls), the number of its
\* /transaksi/create call (txCall, 0 for none) and the HTTP status it answered (code)
IdleReq == [pc |-> "idle", kind |-> "none", orderId |-> undefined, order |-> EmptyObj,
            body |-> EmptyObj, response |-> NoResponse, seen |-> undefined,
            calls |-> 0, txCall |-> 0, code |-> 0]

Init ==
    /\ store = [o \in {} |-> EmptyObj]
    /\ req = [r \in Reqs |-> IdleReq]
    /\ now = 0
    /\ arrived = 0
    /\ nextOrder = 0
    /\ depositCreateCalls = [o \in OrderIds |-> 0]
    /\ txCreateCalls = [o \in OrderIds |-> 0]
    /\ opened = {}
    /\ providerDeposit = [o \in OrderIds |-> "open"]
    /\ quote = NoQuote

\* res.status(code).json(...): the handler ends
Respond(r, code) == [req[r] EXCEPT !.pc = "done", !.code = code, !.response = NoResponse]

\* StatusFetchFailed with a fault: the handler goes on to save its document
StatusFetchFailed_Saves(r, response) ==
    [req[r] EXCEPT !.pc = "save", !.response = response,
                   !.order = [@ EXCEPT !.updatedAt = now]]
\* lines 360-363: the await of a status fetch throws into the outer catch of the
\* reconcile handler, which answers 500; the thrown error is kept as the response
StatusFetchFailed(r, response) == [Respond(r, 500) EXCEPT !.response = response]

(* ---------------------------- create-order ----------------------------- *)
Body(productId, targetId, paymentMethodCode, providerName) ==
    [productId |-> productId, targetId |-> targetId,
     paymentMethodCode |-> paymentMethodCode, providerName |-> providerName]
CreateBodies ==
    {Body("P1", "0812", "BCA", "TELKOMSEL"), Body("P1", "0812", "BCA", "pulsa"),
     Body("", "0812", "BCA", "pulsa"), Body("P1", "", "BCA", "pulsa"),
     Body("P1", "0812", "", "pulsa"), Body("P1", "0812", "BCA", ""),
     Body("PX", "0812", "BCA", "pulsa"), Body("P1", "0812", "BCA", "Other"),
     Body("P1", "0812", "XX", "pulsa")}

\* MissingField with a fault: targetId is not required
MissingField_NoTarget(body) ==
    \/ Falsy(body.productId) \/ Falsy(body.paymentMethodCode) \/ Falsy(body.providerName)

\* line 169
MissingField(body) ==
    \/ Falsy(body.productId) \/ Falsy(body.targetId)
    \/ Falsy(body.paymentMethodCode) \/ Falsy(body.providerName)

\* validation, id generation and the /deposit/create call
CreateOrder(r) ==
    /\ req[r].pc = "idle"
    /\ arrived < MaxRequests
    /\ arrived' = arrived + 1
    /\ \E body \in CreateBodies :
        LET start == [IdleReq EXCEPT !.kind = "create", !.body = body] IN
        IF MissingField(body)
        THEN /\ req' = [req EXCEPT ![r] = [start EXCEPT !.pc = "done", !.code = 400]]
             /\ UNCHANGED <<nextOrder, depositCreateCalls>>
        ELSE IF FindProduct(body.productId, body.providerName) = {}
                \/ FindPaymentMethod(body.paymentMethodCode) = {}
        THEN /\ req' = [req EXCEPT ![r] = [start EXCEPT !.pc = "done", !.code = 404]]
             /\ UNCHANGED <<nextOrder, depositCreateCalls>>
        ELSE /\ nextOrder < MaxOrders
             /\ LET orderIdInternal == OrderIdOf(nextOrder + 1) IN
                /\ nextOrder' = nextOrder + 1
                /\ depositCreateCalls' =
                     [depositCreateCalls EXCEPT ![orderIdInternal] = @ + 1]
                /\ req' = [req EXCEPT ![r] =
                     [start EXCEPT !.pc = "depositCreate", !.orderId = orderIdInternal,
                                   !.calls = 1]]
    /\ UNCHANGED <<store, now, txCreateCalls, opened,
                 providerDeposit, quote>>

\* DepositRejected with a fault: the data object is not looked at
DepositRejected_StatusOnly(depositResponse) == ~depositResponse.status
\* line 206
DepositRejected(depositResponse) == ~depositResponse.status \/ ~depositResponse.hasData

NewOrder(orderIdInternal, body, depositResponse, date) ==
    LET selectedProduct == CHOOSE p \in FindProduct(body.productId, body.providerName) : TRUE
        selectedPaymentMethod == CHOOSE pm \in FindPaymentMethod(body.paymentMethodCode) : TRUE
    IN [orderId |-> orderIdInternal,
        productId |-> body.productId,
        productName |-> selectedProduct.name,
        productPrice |-> selectedProduct.price,
        providerName |-> selectedProduct.provider,
        productImgUrl |-> selectedProduct.img_url,
        targetId |-> body.targetId,
        paymentMethodCode |-> body.paymentMethodCode,
        paymentMethodName |-> selectedPaymentMethod.name,
        adminFeePaymentMethod |-> feeFromPaymentMethod(selectedProduct, selectedPaymentMethod),
        adminFeeGlobal |-> globalAdminFee(selectedProduct),
        totalAdminFee |-> totalAdminFee(selectedProduct, selectedPaymentMethod),
        totalAmountToPayForDeposit |->
            Ceil(totalAmountForDeposit(selectedProduct, selectedPaymentMethod)),
        atlanticDepositId |-> Get(depositResponse.data, "id"),
        depositReffId |-> DepositReffIdOf(orderIdInternal),
        depositDetails |-> depositResponse.data,
        status |-> "PENDING_PAYMENT",
        atlanticTransactionId |-> undefined,
        transactionReffId |-> undefined,
        transactionDetails |-> EmptyObj,
        createdAt |-> date,
        updatedAt |-> date]

\* the /deposit/create response arrives
CreateDepositResponse(r) ==
    /\ req[r].pc = "depositCreate"
    /\ \E depositResponse \in DepositCreateResponses :
        /\ opened' = IF depositResponse.kind = "reply" /\ depositResponse.status
                         /\ depositResponse.hasData
                      THEN opened \cup {req[r].orderId} ELSE opened
        /\ IF depositResponse.kind = "throw" \/ DepositRejected(depositResponse)
           THEN req' = [req EXCEPT ![r] = Respond(r, 500)]
           ELSE req' = [req EXCEPT ![r] =
                   [req[r] EXCEPT !.pc = "saveNew",
                                  !.order = NewOrder(req[r].orderId, req[r].body,
                                                     depositResponse, now)]]
    /\ UNCHANGED <<store, arrived, now, nextOrder, depositCreateCalls, txCreateCalls,
                 providerDeposit, quote>>

\* newOrder.save() resolves or rejects
CreateSave(r) ==
    /\ req[r].pc = "saveNew"
    /\ \/ /\ store' = [o \in DOMAIN store \cup {req[r].orderId} |->
                         IF o = req[r].orderId THEN req[r].order ELSE store[o]]
          /\ req' = [req EXCEPT ![r] = Respond(r, 200)]
       \/ /\ req' = [req EXCEPT ![r] = Respond(r, 500)]
          /\ UNCHANGED store
    /\ UNCHANGED <<now, arrived, nextOrder, depositCreateCalls, txCreateCalls, opened,
                 providerDeposit, quote>>

(* ---------------------------- reconcile -------------------------------- *)
\* line 264
DepositBranch(status) == status \in {"PENDING_PAYMENT", "PAYMENT_PROCESSING"}
\* TransactionBranch with a fault: a completed order is polled again
TransactionBranch_AlsoCompleted(status) ==
    status \in {"ORDER_PROCESSING", "PAYMENT_SUCCESSFUL_PROCESSING_ORDER",
                "TRANSACTION_CREATION_FAILED", "ORDER_COMPLETED"}
\* line 307
TransactionBranch(status) ==
    status \in {"ORDER_PROCESSING", "PAYMENT_SUCCESSFUL_PROCESSING_ORDER",
                "TRANSACTION_CREATION_FAILED"}
\* line 308
HasTransactionId(order) == ~Falsy(order.atlanticTransactionId)
\* line 331
RetryBranch(order) ==
    order.status = "PAYMENT_SUCCESSFUL_PROCESSING_ORDER" /\ Falsy(order.atlanticTransactionId)

\* DepositPaid with a fault: a deposit still in process counts as paid
DepositPaid_AlsoProcessing(atlanticStatus) == atlanticStatus \in {"SUCCESS", "PROCESSING"}
\* line 272
DepositPaid(atlanticStatus) == atlanticStatus = "SUCCESS"

\* DepositStatusToOrderStatus with a fault: the PENDING branch is missing
DepositStatusToOrderStatus_NoPending(atlanticStatus) ==
    IF atlanticStatus \in {"EXPIRED", "FAILED", "CANCEL"} THEN "PAYMENT_" \o atlanticStatus
    ELSE "PAYMENT_PROCESSING"
\* lines 298-304: the deposit statuses other than SUCCESS
DepositStatusToOrderStatus(atlanticStatus) ==
    IF atlanticStatus \in {"EXPIRED", "FAILED", "CANCEL"} THEN "PAYMENT_" \o atlanticStatus
    ELSE IF atlanticStatus = "PENDING" THEN "PENDING_PAYMENT"
    ELSE "PAYMENT_PROCESSING"

\* TxStatusToOrderStatus with a fault: ERROR is not taken as a failure
TxStatusToOrderStatus_ErrorPasses(atlanticTxStatus) ==
    IF atlanticTxStatus = "SUCCESS" THEN "ORDER_COMPLETED"
    ELSE IF atlanticTxStatus = "FAILED" THEN "ORDER_FAILED"
    ELSE IF atlanticTxStatus = "PENDING" THEN "ORDER_PROCESSING"
    ELSE atlanticTxStatus
\* lines 319-327
TxStatusToOrderStatus(atlanticTxStatus) ==
    IF atlanticTxStatus = "SUCCESS" THEN "ORDER_COMPLETED"
    ELSE IF atlanticTxStatus \in {"FAILED", "ERROR"} THEN "ORDER_FAILED"
    ELSE IF atlanticTxStatus = "PENDING" THEN "ORDER_PROCESSING"
    ELSE atlanticTxStatus

\* CreatedTransactionStatus with a fault: PENDING is stored as it comes
CreatedTransactionStatus_KeepsPending(data) ==
    IF Falsy(Get(data, "status")) THEN "ORDER_PROCESSING" ELSE toUpperCase(data.status)
\* lines 287-288 and 344-345
CreatedTransactionStatus(data) ==
    LET s == IF Falsy(Get(data, "status")) THEN "ORDER_PROCESSING"
             ELSE toUpperCase(data.status)
    IN IF s = "PENDING" THEN "ORDER_PROCESSING" ELSE s

\* ApplyCreateTransactionResponse with a fault: a thrown error is recorded as a
\* business failure
ApplyCreateTransactionResponse_ThrowAsFailure(order, response, ulang) ==
    IF response.kind = "reply" /\ ResponseOk(response)
    THEN [order EXCEPT !.atlanticTransactionId = Get(response.data, "id"),
                       !.transactionDetails = response.data,
                       !.status = CreatedTransactionStatus(response.data)]
    ELSE [order EXCEPT !.status = "TRANSACTION_CREATION_FAILED",
                       !.transactionDetails =
                           [error |-> IF Falsy(response.message)
                                      THEN "Gagal membuat transaksi" \o ulang
                                      ELSE response.message]]
\* lines 284-296 and 341-353; ulang is "" on the first attempt, " (ulang)" on the retry
ApplyCreateTransactionResponse(order, response, ulang) ==
    IF response.kind = "throw"
    THEN [order EXCEPT !.status = "TRANSACTION_CREATION_ERROR",
                       !.transactionDetails =
                           [error |-> "Internal error" \o ulang \o ": " \o response.message]]
    ELSE IF ResponseOk(response)
    THEN [order EXCEPT !.atlanticTransactionId = Get(response.data, "id"),
                       !.transactionDetails = response.data,
                       !.status = CreatedTransactionStatus(response.data)]
    ELSE [order EXCEPT !.status = "TRANSACTION_CREATION_FAILED",
                       !.transactionDetails =
                           [error |-> IF Falsy(response.message)
                                      THEN "Gagal membuat transaksi" \o ulang
                                      ELSE response.message]]

\* lines 250-258: the handler starts and Order.findOne is issued
ReconcileRequest(r) ==
    /\ req[r].pc = "idle"
    /\ \E orderId \in OrderIds \cup {UnknownOrderId} :
        req' = [req EXCEPT ![r] =
                  [IdleReq EXCEPT !.kind = "reconcile", !.pc = "findOne", !.orderId = orderId]]
    /\ UNCHANGED <<store, now, nextOrder, depositCreateCalls, txCreateCalls, opened,
                 providerDeposit, quote>>

\* the request arrives and Order.findOne is issued
Reconcile(r) ==
    /\ arrived < MaxRequests
    /\ arrived' = arrived + 1
    /\ ReconcileRequest(r)

\* Order.findOne resolves (or rejects); lines 258-264, 307-313, 331-340, 358
ReconcileLoaded(r) ==
    /\ req[r].pc = "findOne" /\ req[r].kind = "reconcile"
    /\ \/ /\ req' = [req EXCEPT ![r] = Respond(r, 500)]
          /\ UNCHANGED txCreateCalls
       \/ IF req[r].orderId \notin DOMAIN store
          THEN /\ req' = [req EXCEPT ![r] = Respond(r, 404)]
               /\ UNCHANGED txCreateCalls
          ELSE LET order == store[req[r].orderId]
                   loaded == [req[r] EXCEPT !.order = order, !.seen = order.status] IN
               IF DepositBranch(order.status)
               THEN /\ req' = [req EXCEPT ![r] =
                                 [loaded EXCEPT !.pc = "depositStatus", !.calls = @ + 1]]
                    /\ UNCHANGED txCreateCalls
               ELSE IF TransactionBranch(order.status) /\ HasTransactionId(order)
               THEN /\ req' = [req EXCEPT ![r] =
                                 [loaded EXCEPT !.pc = "txStatus", !.calls = @ + 1]]
                    /\ UNCHANGED txCreateCalls
               ELSE IF TransactionBranch(order.status) /\ RetryBranch(order)
               THEN /\ txCreateCalls[order.orderId] < MaxTxCalls
                    /\ txCreateCalls' = [txCreateCalls EXCEPT ![order.orderId] = @ + 1]
                    /\ req' = [req EXCEPT ![r] =
                                 [loaded EXCEPT
                                    !.pc = "txCreateRetry", !.calls = @ + 1,
                                    !.txCall = txCreateCalls[order.orderId] + 1,
                                    !.order = [order EXCEPT
                                        !.updatedAt = now,
                                        !.transactionReffId =
                                            TransactionReffIdOf(order.orderId)]]]
               ELSE /\ req' = [req EXCEPT ![r] =
                                 [loaded EXCEPT !.pc = "done", !.code = 200]]
                    /\ UNCHANGED txCreateCalls
    /\ UNCHANGED <<store, arrived, now, nextOrder, depositCreateCalls, opened,
                 providerDeposit, quote>>

\* the /deposit/status response arrives; lines 265-305
ReconcileDepositStatus(r) ==
    /\ req[r].pc = "depositStatus"
    /\ \E depositStatusResponse \in DepositStatusResponses :
        LET order == req[r].order IN
        /\ DepositStatusAnswerAllowed(providerDeposit[order.orderId], depositStatusResponse)
        /\ providerDeposit' =
              [providerDeposit EXCEPT ![order.orderId] =
                  DepositAfterStatusAnswer(@, depositStatusResponse)]
        /\ IF depositStatusResponse.kind = "throw"
           THEN /\ req' = [req EXCEPT ![r] = StatusFetchFailed(r, depositStatusResponse)]
                /\ UNCHANGED txCreateCalls
           ELSE IF ~ResponseOk(depositStatusResponse)
           \* line 267 is false: nothing is mutated, nothing is saved, line 358 answers
           THEN /\ req' = [req EXCEPT ![r] =
                            [Respond(r, 200) EXCEPT !.response = depositStatusResponse]]
                /\ UNCHANGED txCreateCalls
           ELSE IF "status" \notin DOMAIN depositStatusResponse.data
           \* undefined.toUpperCase() throws a TypeError
           THEN /\ req' = [req EXCEPT ![r] = Respond(r, 500)]
                /\ UNCHANGED txCreateCalls
           ELSE LET atlanticStatus == toUpperCase(depositStatusResponse.data.status)
                    polled == [order EXCEPT
                                 !.updatedAt = now,
                                 !.depositDetails = Merge(@, depositStatusResponse.data)]
                IN IF DepositPaid(atlanticStatus)
                   THEN /\ txCreateCalls[order.orderId] < MaxTxCalls
                        /\ txCreateCalls' = [txCreateCalls EXCEPT ![order.orderId] = @ + 1]
                        /\ req' = [req EXCEPT ![r] =
                             [req[r] EXCEPT
                                !.pc = "txCreateFirst", !.calls = @ + 1,
                                !.response = depositStatusResponse,
                                !.txCall = txCreateCalls[order.orderId] + 1,
                                !.order = [polled EXCEPT
                                    !.status = "PAYMENT_SUCCESSFUL_PROCESSING_ORDER",
                                    !.transactionReffId = TransactionReffIdOf(order.orderId)]]]
                   ELSE /\ req' = [req EXCEPT ![r] =
                             [req[r] EXCEPT
                                !.pc = "save", !.response = depositStatusResponse,
                                !.order = [polled EXCEPT
                                    !.status = DepositStatusToOrderStatus(atlanticStatus)]]]
                        /\ UNCHANGED txCreateCalls
    /\ UNCHANGED <<store, arrived, now, nextOrder, depositCreateCalls, opened, quote>>

\* the /transaksi/create response arrives (or the call throws); lines 277-296, 335-353
ReconcileTxCreate(r) ==
    /\ req[r].pc \in {"txCreateFirst", "txCreateRetry"}
    /\ \E createTransactionResponse \in TransactionCreateResponses(TransactionIdOf(req[r].txCall)) :
        req' = [req EXCEPT ![r] =
                  [req[r] EXCEPT
                     !.pc = "save", !.response = createTransactionResponse,
                     !.order = ApplyCreateTransactionResponse(
                                  @, createTransactionResponse,
                                  IF req[r].pc = "txCreateRetry" THEN " (ulang)" ELSE "")]]
    /\ UNCHANGED <<store, arrived, now, nextOrder, depositCreateCalls, txCreateCalls, opened,
                 providerDeposit, quote>>

\* the /transaksi/status response arrives; lines 309-329
ReconcileTxStatus(r) ==
    /\ req[r].pc = "txStatus"
    /\ \E transactionStatusResponse \in TransactionStatusResponses :
        LET touched == [req[r].order EXCEPT !.updatedAt = now] IN
        IF transactionStatusResponse.kind = "throw"
        THEN req' = [req EXCEPT ![r] = StatusFetchFailed(r, transactionStatusResponse)]
        ELSE IF ~ResponseOk(transactionStatusResponse)
        THEN req' = [req EXCEPT ![r] =
                [req[r] EXCEPT !.pc = "save", !.response = transactionStatusResponse,
                               !.order = touched]]
        ELSE IF "status" \notin DOMAIN transactionStatusResponse.data
        THEN req' = [req EXCEPT ![r] = [Respond(r, 500) EXCEPT !.order = touched]]
        ELSE req' = [req EXCEPT ![r] =
                [req[r] EXCEPT
                   !.pc = "save", !.response = transactionStatusResponse,
                   !.order = [touched EXCEPT
                       !.transactionDetails = Merge(@, transactionStatusResponse.data),
                       !.status = TxStatusToOrderStatus(
                                     toUpperCase(transactionStatusResponse.data.status))]]]
    /\ UNCHANGED <<store, arrived, now, nextOrder, depositCreateCalls, txCreateCalls, opened,
                 providerDeposit, quote>>

\* order.save() resolves or rejects; lines 305, 329, 354, 358
ReconcileSave(r) ==
    /\ req[r].pc = "save" /\ req[r].kind = "reconcile"
    /\ \/ /\ store' = [store EXCEPT ![req[r].orderId] = req[r].order]
          /\ req' = [req EXCEPT ![r] = Respond(r, 200)]
       \/ /\ req' = [req EXCEPT ![r] = Respond(r, 500)]
          /\ UNCHANGED store
    /\ UNCHANGED <<now, arrived, nextOrder, depositCreateCalls, txCreateCalls, opened,
                 providerDeposit, quote>>

(* ---------------------------- cancel ----------------------------------- *)
\* line 382
CancellableStatus(status) == status \in {"PENDING_PAYMENT", "PAYMENT_PROCESSING"}

\* CancelSucceeded with a fault: the nested status is not compared
CancelSucceeded_AnyData(cancelResponse) == ResponseOk(cancelResponse)
\* line 388
CancelSucceeded(cancelResponse) ==
    /\ ResponseOk(cancelResponse)
    /\ ~Falsy(Get(cancelResponse.data, "status"))
    /\ toLowerCase(cancelResponse.data.status) = "cancel"

\* ApplyCancel with a fault: the target of the order is cleared
ApplyCancel_ClearsTarget(order, date) ==
    [order EXCEPT !.status = "PAYMENT_CANCELLED",
                  !.updatedAt = date,
                  !.targetId = undefined,
                  !.depositDetails = IF @ # EmptyObj
                                     THEN Merge(@, [status |-> "cancel"])
                                     ELSE [status |-> "cancel"]]
\* lines 389-395
ApplyCancel(order, date) ==
    [order EXCEPT !.status = "PAYMENT_CANCELLED",
                  !.updatedAt = date,
                  !.depositDetails = IF @ # EmptyObj
                                     THEN Merge(@, [status |-> "cancel"])
                                     ELSE [status |-> "cancel"]]

\* the request arrives and Order.findOne is issued
Cancel(r) ==
    /\ req[r].pc = "idle"
    /\ arrived < MaxRequests
    /\ arrived' = arrived + 1
    /\ \E orderId \in OrderIds \cup {UnknownOrderId} :
        req' = [req EXCEPT ![r] =
                  [IdleReq EXCEPT !.kind = "cancel", !.pc = "findOne", !.orderId = orderId]]
    /\ UNCHANGED <<store, now, nextOrder, depositCreateCalls, txCreateCalls, opened,
                 providerDeposit, quote>>

\* Order.findOne resolves (or rejects); lines 372-386
CancelLoaded(r) ==
    /\ req[r].pc = "findOne" /\ req[r].kind = "cancel"
    /\ \/ req' = [req EXCEPT ![r] = Respond(r, 500)]
       \/ IF req[r].orderId \notin DOMAIN store
          THEN req' = [req EXCEPT ![r] = Respond(r, 404)]
          ELSE LET order == store[req[r].orderId]
                   loaded == [req[r] EXCEPT !.order = order, !.seen = order.status] IN
               IF Falsy(order.atlanticDepositId)
               THEN req' = [req EXCEPT ![r] = [loaded EXCEPT !.pc = "done", !.code = 400]]
               ELSE IF ~CancellableStatus(order.status)
               THEN req' = [req EXCEPT ![r] = [loaded EXCEPT !.pc = "done", !.code = 400]]
               ELSE req' = [req EXCEPT ![r] =
                              [loaded EXCEPT !.pc = "depositCancel", !.calls = @ + 1]]
    /\ UNCHANGED <<store, arrived, now, nextOrder, depositCreateCalls, txCreateCalls, opened,
                 providerDeposit, quote>>

\* the /deposit/cancel response arrives; lines 386-404
CancelResponse(r) ==
    /\ req[r].pc = "depositCancel"
    /\ \E cancelResponse \in CancelResponses :
        /\ CancelAnswerAllowed(providerDeposit[req[r].orderId], cancelResponse)
        /\ providerDeposit' =
              [providerDeposit EXCEPT ![req[r].orderId] =
                  DepositAfterCancelAnswer(@, cancelResponse)]
        /\ IF cancelResponse.kind = "throw"
           THEN req' = [req EXCEPT ![r] = Respond(r, 500)]
           ELSE IF CancelSucceeded(cancelResponse)
           THEN req' = [req EXCEPT ![r] =
                   [req[r] EXCEPT !.pc = "save", !.response = cancelResponse,
                                  !.order = ApplyCancel(@, now)]]
           ELSE req' = [req EXCEPT ![r] = Respond(r, 500)]
    /\ UNCHANGED <<store, arrived, now, nextOrder, depositCreateCalls, txCreateCalls, opened, quote>>

\* order.save() resolves or rejects; lines 396-397, 401-403
CancelSave(r) ==
    /\ req[r].pc = "save" /\ req[r].kind = "cancel"
    /\ \/ /\ store' = [store EXCEPT ![req[r].orderId] = req[r].order]
          /\ req' = [req EXCEPT ![r] = Respond(r, 200)]
       \/ /\ req' = [req EXCEPT ![r] = Respond(r, 500)]
          /\ UNCHANGED store
    /\ UNCHANGED <<now, arrived, nextOrder, depositCreateCalls, txCreateCalls, opened,
                 providerDeposit, quote>>

(* ---------------------------- housekeeping ----------------------------- *)
\* the response has been sent; the handler slot is free again
Finish(r) ==
    /\ req[r].pc = "done"
    /\ req' = [req EXCEPT ![r] = IdleReq]
    /\ UNCHANGED <<store, arrived, now, nextOrder, depositCreateCalls, txCreateCalls, opened,
                 providerDeposit, quote>>

\* time passes
Tick ==
    /\ now < MaxTime
    /\ now' = now + 1
    /\ UNCHANGED <<store, arrived, req, nextOrder, depositCreateCalls, txCreateCalls, opened,
                 providerDeposit, quote>>

Next ==
    \/ \E r \in Reqs : CreateOrder(r)
    \/ \E r \in Reqs : CreateDepositResponse(r)
    \/ \E r \in Reqs : CreateSave(r)
    \/ \E r \in Reqs : Reconcile(r)
    \/ \E r \in Reqs : ReconcileLoaded(r)
    \/ \E r \in Reqs : ReconcileDepositStatus(r)
    \/ \E r \in Reqs : ReconcileTxCreate(r)
    \/ \E r \in Reqs : ReconcileTxStatus(r)
    \/ \E r \in Reqs : ReconcileSave(r)
    \/ \E r \in Reqs : Cancel(r)
    \/ \E r \in Reqs : CancelLoaded(r)
    \/ \E r \in Reqs : CancelResponse(r)
    \/ \E r \in Reqs : CancelSave(r)
    \/ \E r \in Reqs : Finish(r)
    \/ Tick

Spec == Init /\ [][Next]_vars

(* ---------------------------- polling ---------------------------------- *)
(* The client of an order keeps calling GET /api/order-status/:orderId     *)
(* (the only driver of reconciliation), the store answers, and the         *)
(* provider reports final statuses: every deposit status is SUCCESS,       *)
(* EXPIRED, FAILED or CANCEL, every transaction status SUCCESS, FAILED or  *)
(* ERROR; /transaksi/create succeeds with an id and any status, fails or   *)
(* throws.                                                                 *)
FinalDepositStatuses == {"SUCCESS", "EXPIRED", "FAILED", "CANCEL"}
FinalTransactionStatuses == {"SUCCESS", "FAILED", "ERROR"}
FinalAnswer(response, finals) ==
    /\ response.kind = "reply" /\ ResponseOk(response)
    /\ toUpperCase(Get(response.data, "status")) \in finals

\* the client polls an order it created; polls are not counted
Poll(r) ==
    /\ ReconcileRequest(r)
    /\ req'[r].orderId \in DOMAIN store
    /\ UNCHANGED arrived
PollLoaded(r) == ReconcileLoaded(r) /\ req'[r].code # 500
PollDepositStatus(r) ==
    ReconcileDepositStatus(r) /\ FinalAnswer(req'[r].response, FinalDepositStatuses)
PollTxCreate(r) ==
    /\ ReconcileTxCreate(r)
    /\ \/ req'[r].response.kind = "throw"
       \/ ~ResponseOk(req'[r].response)
       \/ "id" \in DOMAIN req'[r].response.data
PollTxStatus(r) ==
    ReconcileTxStatus(r) /\ FinalAnswer(req'[r].response, FinalTransactionStatuses)
PollSave(r) == ReconcileSave(r) /\ req'[r].code = 200

\* a step of the polling handler r
PollStep(r) ==
    \/ Poll(r)
    \/ PollLoaded(r)
    \/ PollDepositStatus(r)
    \/ PollTxCreate(r)
    \/ PollTxStatus(r)
    \/ PollSave(r)
    \/ Finish(r)

PollNext ==
    \/ \E r \in Reqs : CreateOrder(r)
    \/ \E r \in Reqs : CreateDepositResponse(r)
    \/ \E r \in Reqs : CreateSave(r)
    \/ \E r \in Reqs : PollStep(r)
    \/ Tick

\* every handler that can take a step eventually takes one: the event loop runs
\* each continuation, and an idle slot is used for the client's next poll
PollSpec == Init /\ [][PollNext]_vars /\ \A r \in Reqs : WF_vars(PollStep(r))

(* ---------------------------- pricing ---------------------------------- *)
(* The price computation of the create-order handler on its own, over the   *)
(* prices, flat fees and fee percentages a catalog may hold.                *)
\* product prices, in whole currency units
CatalogPrices == {416, 1000, 10000, 12912}
\* flat fees of payment methods, in whole currency units
CatalogFees == {0, 500, 4000, 10000}
\* fee_persen of payment methods, in hundredths of a percent
CatalogFeePercents == {0, 70, 150, 1675, 5425, 10270}

Financials(p, pm) ==
    [adminFeePaymentMethod |-> feeFromPaymentMethod(p, pm),
     adminFeeGlobal |-> globalAdminFee(p),
     totalAdminFee |-> totalAdminFee(p, pm),
     totalAmountForDeposit |-> totalAmountForDeposit(p, pm)]

\* the handler has found the product and the payment method of the request
PricingInit ==
    /\ Init!1 /\ Init!2 /\ Init!3 /\ Init!4 /\ Init!5 /\ Init!6 /\ Init!7 /\ Init!8 /\ Init!9
    /\ \E price \in CatalogPrices, fee \in CatalogFees, fee_persen \in CatalogFeePercents :
        quote = [pc |-> "selected",
                 selectedProduct |-> [price |-> price],
                 selectedPaymentMethod |-> [fee |-> fee, fee_persen |-> fee_persen]]

PricingUnchanged ==
    UNCHANGED <<store, req, now, arrived, nextOrder, depositCreateCalls, txCreateCalls,
                opened, providerDeposit>>

\* lines 186-194
ComputeFees ==
    /\ quote.pc = "selected"
    /\ quote' = Merge(Merge(quote, Financials(quote.selectedProduct,
                                              quote.selectedPaymentMethod)),
                      [pc |-> "priced"])
    /\ PricingUnchanged

\* line 199: the nominal of the /deposit/create call
DepositNominal ==
    /\ quote.pc = "priced"
    /\ quote' = Merge(quote, [pc |-> "deposit", nominal |-> Ceil(quote.totalAmountForDeposit)])
    /\ PricingUnchanged

\* line 223: the amount stored with the order
StoreFinancials ==
    /\ quote.pc = "deposit"
    /\ quote' = Merge(quote, [pc |-> "stored",
                              totalAmountToPayForDeposit |-> Ceil(quote.totalAmountForDeposit)])
    /\ PricingUnchanged

\* line 241: the amount of the response
RespondTotal ==
    /\ quote.pc = "stored"
    /\ quote' = Merge(quote, [pc |-> "answered",
                              totalAmount |-> Ceil(quote.totalAmountForDeposit)])
    /\ PricingUnchanged

\* a later request for the same product and payment method computes its nominal
Requote ==
    /\ quote.pc = "answered"
    /\ quote' = Merge(quote,
                      [pc |-> "requoted",
                       nominalAgain |-> Ceil(totalAmountForDeposit(quote.selectedProduct,
                                                                   quote.selectedPaymentMethod))])
    /\ PricingUnchanged

PricingNext ==
    \/ ComputeFees
    \/ DepositNominal
    \/ StoreFinancials
    \/ RespondTotal
    \/ Requote

PricingSpec == PricingInit /\ [][PricingNext]_vars

(* ======================================================================= *)
(* Properties                                                              *)
(* ======================================================================= *)
Terminal ==
    {"ORDER_COMPLETED", "ORDER_FAILED", "PAYMENT_EXPIRED", "PAYMENT_FAILED",
     "PAYMENT_CANCEL", "PAYMENT_CANCELLED"}
AwaitingPayment == {"PENDING_PAYMENT", "PAYMENT_PROCESSING"}
AwaitingTransaction ==
    {"ORDER_PROCESSING", "PAYMENT_SUCCESSFUL_PROCESSING_ORDER", "TRANSACTION_CREATION_FAILED"}

\* this step is a step of handler r
Acts(r) == req'[r] # req[r]
\* the provider answered and the answer carries status true and a data object
Successful(response) == response.kind = "reply" /\ response.status /\ response.hasData
\* handler r answers 200 in this step, having saved its document
Saves(r) == req[r].pc = "save" /\ req'[r].pc = "done" /\ req'[r].code = 200
NoProviderCallIn(r) ==
    /\ req'[r].calls = req[r].calls
    /\ depositCreateCalls' = depositCreateCalls
    /\ txCreateCalls' = txCreateCalls

\* C1: two reconcile calls in flight on the same order, both having read status
\* PAYMENT_SUCCESSFUL_PROCESSING_ORDER with no transaction id, never both issue a
\* /transaksi/create call (reference id TRX-<orderId>).
C1_AtMostOneRetryCreate ==
    \A r1, r2 \in Reqs :
        ~ /\ r1 # r2
          /\ req[r1].kind = "reconcile" /\ req[r2].kind = "reconcile"
          /\ req[r1].orderId = req[r2].orderId
          /\ req[r1].pc \in {"txCreateRetry", "save"}
          /\ req[r2].pc \in {"txCreateRetry", "save"}
          /\ req[r1].seen = "PAYMENT_SUCCESSFUL_PROCESSING_ORDER"
          /\ req[r2].seen = "PAYMENT_SUCCESSFUL_PROCESSING_ORDER"
          /\ req[r1].txCall > 0 /\ req[r2].txCall > 0

\* C2: a stored atlanticDepositId or atlanticTransactionId, once it holds a value,
\* keeps that value, and at most one /deposit/create and one /transaksi/create call
\* is issued per order.
C2_IdsSetOnceOneAttempt ==
    [][/\ \A o \in DOMAIN store :
            /\ ~Falsy(store[o].atlanticDepositId)
                 => store'[o].atlanticDepositId = store[o].atlanticDepositId
            /\ ~Falsy(store[o].atlanticTransactionId)
                 => store'[o].atlanticTransactionId = store[o].atlanticTransactionId
       /\ \A o \in OrderIds : depositCreateCalls'[o] <= 1 /\ txCreateCalls'[o] <= 1]_vars

\* C3: a reconcile that reads an order in a terminal status answers 200 with the
\* order exactly as stored, issues no provider call and writes nothing.
C3_TerminalReconcileIsNoOp ==
    [][\A r \in Reqs :
        (/\ Acts(r)
         /\ req[r].kind = "reconcile" /\ req[r].pc = "findOne"
         /\ req[r].orderId \in DOMAIN store
         /\ store[req[r].orderId].status \in Terminal
         /\ req'[r].code # 500)
        => /\ req'[r].pc = "done" /\ req'[r].code = 200
           /\ req'[r].order = store[req[r].orderId]
           /\ req'[r].calls = 0
           /\ NoProviderCallIn(r)
           /\ store' = store]_vars
C3_Witness ==
    \E r \in Reqs :
        /\ req[r].kind = "reconcile" /\ req[r].pc = "done" /\ req[r].code = 200
        /\ req[r].seen \in Terminal /\ req[r].calls = 0
        /\ req[r].order = store[req[r].orderId]

\* C4: an order id whose /deposit/create call failed (business failure or transport
\* error) has no stored record, and its create-order request answers an error.
C4_CreateAllOrNothing ==
    /\ \A o \in DOMAIN store : o \in opened
    /\ \A r \in Reqs :
        (/\ req[r].kind = "create" /\ req[r].pc = "done"
         /\ req[r].orderId # undefined /\ req[r].orderId \notin opened)
        => req[r].code = 500 /\ req[r].orderId \notin DOMAIN store
C4_Witness ==
    \E r \in Reqs :
        /\ req[r].kind = "create" /\ req[r].pc = "done" /\ req[r].code = 500
        /\ req[r].orderId # undefined /\ req[r].orderId \notin opened
        /\ req[r].orderId \notin DOMAIN store

\* C5: a reconcile that read PENDING_PAYMENT or PAYMENT_PROCESSING, got deposit
\* status SUCCESS and a successful /transaksi/create answer carrying an id and status
\* PENDING (any case) or no status, stores the order as ORDER_PROCESSING with the
\* provider's transaction id and transactionReffId TRX-<orderId>.
C5_SuccessToOrderProcessing ==
    [][\A r \in Reqs :
        (/\ Saves(r)
         /\ req[r].kind = "reconcile" /\ req[r].seen \in AwaitingPayment
         /\ req[r].txCall > 0
         /\ toUpperCase(req[r].order.depositDetails.status) = "SUCCESS"
         /\ Successful(req[r].response)
         /\ "id" \in DOMAIN req[r].response.data
         /\ \/ "status" \notin DOMAIN req[r].response.data
            \/ toUpperCase(req[r].response.data.status) = "PENDING")
        => /\ store'[req[r].orderId].status = "ORDER_PROCESSING"
           /\ store'[req[r].orderId].atlanticTransactionId = req[r].response.data.id
           /\ store'[req[r].orderId].transactionReffId = "TRX-" \o req[r].orderId]_vars
C5_Witness ==
    \E r \in Reqs :
        /\ req[r].kind = "reconcile" /\ req[r].pc = "done" /\ req[r].code = 200
        /\ req[r].seen \in AwaitingPayment /\ req[r].txCall > 0
        /\ req[r].order.transactionDetails = [id |-> "T1", status |-> "PENDING"]
        /\ store[req[r].orderId].status = "ORDER_PROCESSING"
        /\ store[req[r].orderId].atlanticTransactionId = "T1"

\* the status C6 states for an upper-cased deposit status other than SUCCESS
C6_Expected(upper) ==
    CASE upper = "EXPIRED" -> "PAYMENT_EXPIRED"
      [] upper = "FAILED" -> "PAYMENT_FAILED"
      [] upper = "CANCEL" -> "PAYMENT_CANCEL"
      [] upper = "PENDING" -> "PENDING_PAYMENT"
      [] OTHER -> "PAYMENT_PROCESSING"

\* C6: a reconcile that read PENDING_PAYMENT or PAYMENT_PROCESSING and got a
\* successful /deposit/status answer with a status other than SUCCESS stores
\* PAYMENT_EXPIRED, PAYMENT_FAILED, PAYMENT_CANCEL, PENDING_PAYMENT or
\* PAYMENT_PROCESSING by the upper-cased status, and issues no /transaksi/create.
C6_DepositStatusMapping ==
    [][\A r \in Reqs :
        /\ (/\ Acts(r) /\ req[r].pc = "depositStatus" /\ req'[r].pc = "txCreateFirst")
           => toUpperCase(req'[r].order.depositDetails.status) = "SUCCESS"
        /\ (/\ Acts(r) /\ req[r].pc = "depositStatus"
            /\ Successful(req'[r].response)
            /\ "status" \in DOMAIN req'[r].response.data
            /\ toUpperCase(req'[r].response.data.status) # "SUCCESS")
           => /\ req'[r].order.status =
                    C6_Expected(toUpperCase(req'[r].response.data.status))
              /\ req'[r].txCall = 0
              /\ txCreateCalls' = txCreateCalls
        /\ (/\ Saves(r)
            /\ req[r].kind = "reconcile" /\ req[r].seen \in AwaitingPayment
            /\ req[r].txCall = 0)
           => /\ Successful(req[r].response)
              /\ store'[req[r].orderId].status =
                    C6_Expected(toUpperCase(req[r].response.data.status))]_vars
C6_Witness ==
    \E r \in Reqs :
        /\ req[r].kind = "reconcile" /\ req[r].pc = "done" /\ req[r].code = 200
        /\ req[r].seen = "PAYMENT_PROCESSING" /\ req[r].txCall = 0
        /\ req[r].order.depositDetails.status = "EXPIRED"
        /\ store[req[r].orderId].status = "PAYMENT_EXPIRED"

\* the status C7 states for an upper-cased transaction status
C7_Expected(upper) ==
    CASE upper = "SUCCESS" -> "ORDER_COMPLETED"
      [] upper \in {"FAILED", "ERROR"} -> "ORDER_FAILED"
      [] upper = "PENDING" -> "ORDER_PROCESSING"
      [] OTHER -> upper

\* C7: a reconcile that read an order with a transaction id in ORDER_PROCESSING,
\* PAYMENT_SUCCESSFUL_PROCESSING_ORDER or TRANSACTION_CREATION_FAILED and got a
\* successful /transaksi/status answer stores ORDER_COMPLETED, ORDER_FAILED,
\* ORDER_PROCESSING or the upper-cased status itself.
C7_TransactionStatusMapping ==
    [][\A r \in Reqs :
        (/\ Saves(r)
         /\ req[r].kind = "reconcile" /\ req[r].seen \in AwaitingTransaction
         /\ req[r].txCall = 0
         /\ Successful(req[r].response))
        => /\ ~Falsy(req[r].order.atlanticTransactionId)
           /\ store'[req[r].orderId].status =
                 C7_Expected(toUpperCase(req[r].response.data.status))]_vars
C7_Witness ==
    \E r \in Reqs :
        /\ req[r].kind = "reconcile" /\ req[r].pc = "done" /\ req[r].code = 200
        /\ req[r].seen = "ORDER_PROCESSING" /\ req[r].txCall = 0
        /\ Get(req[r].order.transactionDetails, "status") = "error"
        /\ store[req[r].orderId].status = "ORDER_FAILED"

\* C8: a reconcile that reads TRANSACTION_CREATION_FAILED with no transaction id
\* and answers 200 has issued a /transaksi/create call (one that issued none read an
\* order that had a transaction id).
C8_FailedCreationIsRetried ==
    \A r \in Reqs :
        (/\ req[r].kind = "reconcile" /\ req[r].pc = "done" /\ req[r].code = 200
         /\ req[r].seen = "TRANSACTION_CREATION_FAILED"
         /\ req[r].txCall = 0)
        => ~Falsy(req[r].order.atlanticTransactionId)

\* C9: a cancel request writes the store only after a /deposit/cancel answer with
\* status true and nested status "cancel" (any case), and then stores
\* PAYMENT_CANCELLED with depositDetails.status = "cancel"; after any other answer
\* it answers 500 and the store is unchanged.
C9_CancelOnlyOnProviderCancel ==
    [][\A r \in Reqs :
        (Acts(r) /\ req[r].kind = "cancel")
        => /\ store' # store => Saves(r)
           /\ Saves(r)
                => /\ Successful(req[r].response)
                   /\ Get(req[r].response.data, "status") \in {"cancel", "Cancel", "CANCEL"}
                   /\ store' = [store EXCEPT ![req[r].orderId] = req[r].order]
                   /\ store'[req[r].orderId].status = "PAYMENT_CANCELLED"
                   /\ store'[req[r].orderId].depositDetails.status = "cancel"
           /\ (req[r].pc = "depositCancel" /\ req'[r].pc # "save")
                => /\ req'[r].pc = "done" /\ req'[r].code = 500
                   /\ store' = store]_vars
C9_Witness ==
    \E r \in Reqs :
        /\ req[r].kind = "cancel" /\ req[r].pc = "done" /\ req[r].code = 200
        /\ store[req[r].orderId].status = "PAYMENT_CANCELLED"
        /\ store[req[r].orderId].depositDetails.status = "cancel"

\* the create-order bodies C10 calls invalid
C10_InvalidBody(body) ==
    \/ "" \in {body.productId, body.targetId, body.paymentMethodCode, body.providerName}
    \/ body.productId # "P1"
    \/ body.providerName \notin {"TELKOMSEL", "pulsa"}
    \/ body.paymentMethodCode # "BCA"

\* C10: create-order with a missing field, unknown product or unknown payment
\* method, reconcile or cancel of an unknown order id, and cancel of an order with
\* no deposit id or a status other than PENDING_PAYMENT and PAYMENT_PROCESSING are
\* answered with an error, issue no provider call and leave the store unchanged.
C10_RejectedRequestsTouchNothing ==
    [][\A r \in Reqs :
        /\ (/\ Acts(r) /\ req[r].pc = "idle" /\ req'[r].kind = "create"
            /\ C10_InvalidBody(req'[r].body))
           => /\ req'[r].pc = "done" /\ req'[r].code \in {400, 404}
              /\ req'[r].calls = 0 /\ NoProviderCallIn(r)
              /\ store' = store /\ nextOrder' = nextOrder
        /\ (/\ Acts(r) /\ req[r].pc = "findOne"
            /\ req[r].orderId \notin DOMAIN store)
           => /\ req'[r].pc = "done" /\ req'[r].code \in {404, 500}
              /\ req'[r].calls = 0 /\ NoProviderCallIn(r)
              /\ store' = store
        /\ (/\ Acts(r) /\ req[r].pc = "findOne" /\ req[r].kind = "cancel"
            /\ req[r].orderId \in DOMAIN store
            /\ \/ Falsy(store[req[r].orderId].atlanticDepositId)
               \/ store[req[r].orderId].status \notin AwaitingPayment)
           => /\ req'[r].pc = "done" /\ req'[r].code \in {400, 500}
              /\ req'[r].calls = 0 /\ NoProviderCallIn(r)
              /\ store' = store]_vars
C10_Witness ==
    \E r \in Reqs :
        /\ req[r].kind = "cancel" /\ req[r].pc = "done" /\ req[r].code = 400
        /\ req[r].calls = 0
        /\ ~Falsy(req[r].order.atlanticDepositId)
        /\ req[r].seen \in Terminal

\* C11: a reconcile whose /deposit/status or /transaksi/status fetch throws a
\* transport error answers 500 in that step and ends; the store is left exactly as
\* it was (status, details and updatedAt included) and the handler writes nothing.
C11_StatusFetchErrorLeavesStore ==
    [][\A r \in Reqs :
        /\ (/\ Acts(r) /\ req[r].kind = "reconcile"
            /\ req[r].pc \in {"depositStatus", "txStatus"}
            /\ req'[r].response.kind = "throw")
           => /\ req'[r].pc = "done" /\ req'[r].code = 500
              /\ req'[r].order = req[r].order
              /\ store' = store
        /\ (/\ Acts(r) /\ req[r].kind = "reconcile" /\ req[r].pc = "done"
            /\ req[r].response.kind = "throw")
           => store' = store]_vars
C11_Witness ==
    \E r \in Reqs :
        /\ req[r].kind = "reconcile" /\ req[r].pc = "done" /\ req[r].code = 500
        /\ req[r].response.kind = "throw"
        /\ req[r].seen = "ORDER_PROCESSING" /\ req[r].calls = 1
        /\ store[req[r].orderId] = req[r].order

\* C12: when the /transaksi/create call of a reconcile throws, the handler does not
\* answer an error: it goes on to save its document with status
\* TRANSACTION_CREATION_ERROR, the error message under transactionDetails.error and
\* no atlanticTransactionId, and once the save resolves that document is the stored
\* order and the answer is 200.
C12_CreateErrorIsRecorded ==
    [][\A r \in Reqs :
        /\ (/\ Acts(r) /\ req[r].pc \in {"txCreateFirst", "txCreateRetry"}
            /\ req'[r].response.kind = "throw")
           => /\ req'[r].pc = "save"
              /\ req'[r].order.status = "TRANSACTION_CREATION_ERROR"
              /\ req'[r].order.transactionDetails =
                    [error |-> IF req[r].pc = "txCreateFirst"
                               THEN "Internal error: fetch failed"
                               ELSE "Internal error (ulang): fetch failed"]
              /\ Falsy(req'[r].order.atlanticTransactionId)
              /\ store' = store
        /\ (/\ Saves(r) /\ req[r].kind = "reconcile" /\ req[r].txCall > 0
            /\ req[r].response.kind = "throw")
           => /\ store'[req[r].orderId] = req[r].order
              /\ store'[req[r].orderId].status = "TRANSACTION_CREATION_ERROR"
              /\ "error" \in DOMAIN store'[req[r].orderId].transactionDetails
              /\ Falsy(store'[req[r].orderId].atlanticTransactionId)
              /\ req'[r].order = req[r].order]_vars
C12_Witness ==
    \E r \in Reqs :
        /\ req[r].kind = "reconcile" /\ req[r].pc = "done" /\ req[r].code = 200
        /\ req[r].txCall > 0
        /\ req[r].order.status = "TRANSACTION_CREATION_ERROR"
        /\ store[req[r].orderId].status = "TRANSACTION_CREATION_ERROR"
        /\ store[req[r].orderId].transactionDetails =
              [error |-> "Internal error: fetch failed"]
        /\ Falsy(store[req[r].orderId].atlanticTransactionId)

\* new is old with every field of data written over it: the fields of data carry
\* data's values, the other fields of old keep theirs, and there are no others
C14_FieldwiseMerge(old, data, new) ==
    /\ DOMAIN new = DOMAIN old \cup DOMAIN data
    /\ \A k \in DOMAIN data : new[k] = data[k]
    /\ \A k \in DOMAIN old \ DOMAIN data : new[k] = old[k]

\* C14: the step of a reconcile that receives a successful /deposit/status (resp.
\* /transaksi/status) answer leaves in its document the field-wise merge of the
\* depositDetails (resp. transactionDetails) it loaded with the answer's data, and
\* when its save resolves the stored details are those of its document.
C14_DetailsAreMerged ==
    [][\A r \in Reqs :
        /\ (/\ Acts(r) /\ req[r].pc = "depositStatus"
            /\ Successful(req'[r].response) /\ req'[r].pc # "done")
           => /\ C14_FieldwiseMerge(req[r].order.depositDetails, req'[r].response.data,
                                    req'[r].order.depositDetails)
              /\ req'[r].order.transactionDetails = req[r].order.transactionDetails
        /\ (/\ Acts(r) /\ req[r].pc = "txStatus"
            /\ Successful(req'[r].response) /\ req'[r].pc # "done")
           => /\ C14_FieldwiseMerge(req[r].order.transactionDetails,
                                    req'[r].response.data,
                                    req'[r].order.transactionDetails)
              /\ req'[r].order.depositDetails = req[r].order.depositDetails
        /\ (Saves(r) /\ req[r].kind = "reconcile")
           => /\ store'[req[r].orderId].depositDetails = req[r].order.depositDetails
              /\ store'[req[r].orderId].transactionDetails =
                    req[r].order.transactionDetails]_vars
C14_Witness ==
    \E r \in Reqs :
        /\ req[r].kind = "reconcile" /\ req[r].pc = "done" /\ req[r].code = 200
        /\ req[r].seen = "ORDER_PROCESSING" /\ req[r].txCall = 0
        /\ store[req[r].orderId].depositDetails = [id |-> "D1", status |-> "Success"]
        /\ store[req[r].orderId].transactionDetails = [id |-> "T1", status |-> "Success"]

\* C15: a reconcile that receives an answer from the provider, a business failure
\* (status false or no data) included, goes on to save its document with updatedAt
\* set to the current time, and its save stores that document.
C15_EveryAnswerRefreshesUpdatedAt ==
    [][\A r \in Reqs :
        /\ (/\ Acts(r) /\ req[r].kind = "reconcile"
            /\ req[r].pc \in {"depositStatus", "txStatus"}
            /\ req'[r].response.kind = "reply")
           => /\ req'[r].pc \in {"save", "txCreateFirst"}
              /\ req'[r].order.updatedAt = now
        /\ (Saves(r) /\ req[r].kind = "reconcile")
           => store'[req[r].orderId].updatedAt = req[r].order.updatedAt]_vars

\* the fields C17 calls creation-time fields
C17_CreationFields ==
    {"orderId", "depositReffId", "productId", "productName", "productPrice",
     "providerName", "productImgUrl", "targetId", "paymentMethodCode",
     "paymentMethodName", "adminFeePaymentMethod", "adminFeeGlobal", "totalAdminFee",
     "totalAmountToPayForDeposit"}

\* C17: no step removes a stored order or changes one of its creation-time fields,
\* and no step of a reconcile or cancel handler changes a creation-time field of the
\* document it loaded.
C17_CreationFieldsAreFrozen ==
    [][/\ \A o \in DOMAIN store :
            /\ o \in DOMAIN store'
            /\ \A f \in C17_CreationFields : store'[o][f] = store[o][f]
       /\ \A r \in Reqs :
            (/\ Acts(r) /\ req[r].kind \in {"reconcile", "cancel"}
             /\ req[r].order # EmptyObj /\ req'[r].order # EmptyObj)
            => \A f \in C17_CreationFields : req'[r].order[f] = req[r].order[f]]_vars
C17_Witness ==
    \E r \in Reqs :
        /\ req[r].kind = "cancel" /\ req[r].pc = "done" /\ req[r].code = 200
        /\ store[req[r].orderId].status = "PAYMENT_CANCELLED"
        /\ store[req[r].orderId].updatedAt > store[req[r].orderId].createdAt
        /\ store[req[r].orderId].depositDetails = [id |-> "D1", status |-> "cancel"]
        /\ store[req[r].orderId].targetId = "0812"
        /\ store[req[r].orderId].totalAmountToPayForDeposit = 10850

\* C18: once the stored status of an order is terminal, no step changes it, the
\* save of a reconcile or cancel that loaded the order before it became terminal
\* included.
C18_TerminalIsAbsorbing ==
    [][\A o \in DOMAIN store :
        store[o].status \in Terminal => store'[o].status = store[o].status]_vars

\* C20: when a create-order request has ended and the provider opened the deposit
\* of its order, the store holds that order with the deposit id the provider
\* answered, also when newOrder.save() was rejected.
C20_OpenedDepositHasOrder ==
    \A r \in Reqs :
        (/\ req[r].kind = "create" /\ req[r].pc = "done"
         /\ req[r].orderId \in opened)
        => /\ req[r].orderId \in DOMAIN store
           /\ store[req[r].orderId].atlanticDepositId = req[r].order.atlanticDepositId

\* C19: a /transaksi/create call is issued for an order only when the provider has
\* answered that its deposit is paid (status SUCCESS), in that step or before; as
\* long as the provider has not, and for a deposit it answered to be EXPIRED, FAILED
\* or CANCEL or cancelled itself, no call has been issued; a cancel handler issues
\* none, and neither does the step of a reconcile that receives a deposit status
\* other than SUCCESS (PENDING included).
C19_NoFulfilmentWithoutPayment ==
    [][/\ \A o \in OrderIds :
            /\ txCreateCalls'[o] > txCreateCalls[o] => providerDeposit'[o] = "paid"
            /\ providerDeposit'[o] # "paid" => txCreateCalls'[o] = 0
       /\ \A r \in Reqs :
            /\ req'[r].kind = "cancel" => req'[r].txCall = 0
            /\ (/\ Acts(r) /\ req[r].pc = "depositStatus"
                /\ Successful(req'[r].response)
                /\ toUpperCase(Get(req'[r].response.data, "status")) # "SUCCESS")
               => /\ txCreateCalls' = txCreateCalls
                  /\ req'[r].txCall = 0]_vars
C19_Witness ==
    \E r \in Reqs :
        /\ req[r].kind = "reconcile" /\ req[r].pc = "txCreateRetry"
        /\ req[r].seen = "PAYMENT_SUCCESSFUL_PROCESSING_ORDER"
        /\ providerDeposit[req[r].orderId] = "paid"
        /\ txCreateCalls[req[r].orderId] = 2

\* C16: when every handler keeps taking its steps, the client keeps polling and the
\* provider reports only final deposit and transaction statuses, every stored order
\* eventually has a terminal status, whatever /transaksi/create answered (success
\* with any status, business failure, transport error).
C16_EventuallyTerminal ==
    \A o \in OrderIds :
        (o \in DOMAIN store) ~> (o \in DOMAIN store /\ store[o].status \in Terminal)

\* the whole amount due in decimal arithmetic: the ceiling of
\* price + fee + price * fee_persen / 100 + price * 2 / 100, fee_persen in hundredths
C13_ExactAmountDue(p, pm) ==
    (p.price * 10000 + pm.fee * 10000 + p.price * pm.fee_persen
        + p.price * additionalAdminFeePercentGlobal * 100 + 9999) \div 10000

\* C13: for every base price, flat fee and fee percent, the deposit nominal and the
\* stored totalAmountToPayForDeposit are the same value, equal to
\* ceil(basePrice + (flatFee + basePrice*feePercent/100) + basePrice*2/100); computing
\* again from the same inputs gives the same value; and for 10000, 500, 1.5 the fees
\* are 650, 200, 850 and the amount due 10850.
C13_AmountDueIsExactCeiling ==
    /\ quote.pc \in {"deposit", "stored", "answered", "requoted"}
         => quote.nominal = C13_ExactAmountDue(quote.selectedProduct,
                                               quote.selectedPaymentMethod)
    /\ quote.pc \in {"stored", "answered", "requoted"}
         => quote.totalAmountToPayForDeposit = quote.nominal
    /\ quote.pc = "requoted" => quote.nominalAgain = quote.nominal
    /\ ( /\ quote.pc \in {"deposit", "stored", "answered", "requoted"}
         /\ quote.selectedProduct.price = 10000
         /\ quote.selectedPaymentMethod = [fee |-> 500, fee_persen |-> 150] )
         => /\ quote.adminFeePaymentMethod = Whole(650)
            /\ quote.adminFeeGlobal = Whole(200)
            /\ quote.totalAdminFee = Whole(850)
            /\ quote.nominal = 10850

====
